---- MODULE Spec2Model ----
(***************************************************************************)
(* A model of buildall.py: the generator of the Dockerfile matrix and of   *)
(* docker-compose.yml, followed by the docker-compose build driver.        *)
(*                                                                         *)
(* Texts are modelled as what the code renders: file names, service names  *)
(* and image tags are the strings the f-strings produce; a rendered shell  *)
(* block is the sequence of its commands (or packages, or alias rules) in  *)
(* the order in which they are written.                                    *)
(*                                                                         *)
(* A compiler version is an integer; the "dev" version of the catalog is   *)
(* the value Dev, which Str renders as "dev".  A `compilers` dictionary is *)
(* a function whose domain is a subset of {"clang", "gcc"}.                *)
(***************************************************************************)
EXTENDS Integers, Sequences, FiniteSets, TLC

VARIABLES
    ubuntu_versions,  \* the catalog: a sequence of per-OS entries, in dict order
    repo,             \* the image repository root read from the environment
    pc,               \* where main() is: "start", "generate", "build", "done", "error"
    error,            \* the exception that ended the run, "" when none
    osIdx,            \* generation loop: index of the next OS version to generate
    composeOpen,      \* whether docker-compose.yml is open for writing
    composeHeader,    \* the root lines written to docker-compose.yml
    dockerfiles,      \* the generate_docker calls so far, in order: the file each opened
                      \* and the arguments its text is rendered from
    compose,          \* the service stanzas written to docker-compose.yml, in order
    bOs,              \* build loop: index of the OS version being built
    bCat,             \* build loop: position of the next call site in BatchOrder
    invocations       \* the docker-compose invocations issued so far, in order

vars == <<ubuntu_versions, repo, pc, error, osIdx, composeOpen, composeHeader,
          dockerfiles, compose, bOs, bCat, invocations>>

----------------------------------------------------------------------------
(* Bounds of the model and the values the catalogs are drawn from.         *)

\* The "dev" entry that ends a clang_versions list.
Dev == 0

\* Longest clang_versions / gcc_versions list of a catalog entry.
MaxVersions == 2

\* Longest nvcc_versions / nvhpc_versions list of a catalog entry.
MaxGpu == 2

OSPool == <<"20.04", "22.04">>
ClangPool == <<12, 13, Dev>>
GccPool == <<9, 10>>
NvccPool == <<"11.7.1", "11.8.0">>
NvhpcPool == << [hpc_ver |-> "22.7", cuda_ver |-> "11.7"],
                [hpc_ver |-> "22.7", cuda_ver |-> "_multi"],
                [hpc_ver |-> "22.9", cuda_ver |-> "11.7"] >>

\* The contiguous sub-lists of pool with at most n elements (the empty list included).
Slices(pool, n) ==
    { SubSeq(pool, i, j) : i \in 1..(Len(pool) + 1), j \in 0..Len(pool) }
        \ { s \in { SubSeq(pool, i, j) : i \in 1..(Len(pool) + 1), j \in 0..Len(pool) } :
                Len(s) > n }

\* The leading sub-lists of pool with at most n elements (the empty list included).
Prefixes(pool, n) == { SubSeq(pool, 1, k) : k \in { m \in 0..Len(pool) : m <= n } }

Entries(os, nvcc, nvhpc) ==
    { [os |-> os, clang_versions |-> c, gcc_versions |-> g,
       nvcc_versions |-> nvcc, nvhpc_versions |-> nvhpc] :
        c \in Slices(ClangPool, MaxVersions), g \in Slices(GccPool, MaxVersions) }

\* Catalogs: zero, one or two OS versions, each with its own compiler lists;
\* as in the source catalog, every OS version of a catalog lists the same
\* GPU versions.
CatalogsFor(oss, nvcc, nvhpc) ==
    { cat \in [1..Len(oss) -> UNION { Entries(oss[i], nvcc, nvhpc) : i \in 1..Len(oss) }] :
        \A i \in 1..Len(oss) : cat[i].os = oss[i] }

Catalogs ==
    UNION { CatalogsFor(oss, nvcc, nvhpc) :
              oss \in Slices(OSPool, Len(OSPool)),
              nvcc \in Prefixes(NvccPool, MaxGpu),
              nvhpc \in Prefixes(NvhpcPool, MaxGpu) }

DefaultRepo == "lucteo/action-cxx-toolkit"
Repos == {DefaultRepo, "example/cxx-toolkit"}

----------------------------------------------------------------------------
(* Text helpers.                                                           *)

\* f"{v}" of a version: the decimal number, or "dev".
Str(v) == IF v = Dev THEN "dev" ELSE ToString(v)

\* s[-1]
Last(s) == s[Len(s)]

RECURSIVE Flatten(_)
Flatten(ss) == IF ss = <<>> THEN <<>> ELSE Head(ss) \o Flatten(Tail(ss))

Range(s) == { s[i] : i \in 1..Len(s) }

----------------------------------------------------------------------------
(* _gen_alternatives and _get_compiler_text                                *)

Rule(alias, actual) == [alias |-> alias, path |-> "/usr/bin/" \o alias, actual |-> actual]

\* The update-alternatives command as the list of its registrations: the
\* first pair of alts gives "--install <rule> 100", every later one a
\* "--slave <rule>" continuation.
RECURSIVE GenAlternativesFrom(_, _)
GenAlternativesFrom(res, alts) ==
    IF alts = <<>> THEN res
    ELSE LET a == Head(alts)
             rule == Rule(a[1], a[2])
         IN  GenAlternativesFrom(
                 IF res = <<>>
                 THEN <<[flag |-> "--install", rule |-> rule, priority |-> "100"]>>
                 ELSE Append(res, [flag |-> "--slave", rule |-> rule, priority |-> ""]),
                 Tail(alts))

_gen_alternatives(alts) == GenAlternativesFrom(<<>>, alts)

LlvmRepoThreshold == 13

LlvmLookup ==
    "$(apt policy llvm 2>/dev/null | grep -E 'Candidate: 1:(.*).*$' - | cut -d':' -f3 | cut -d'.' -f1)"
LlvmKeyCmd == "wget -qO - https://apt.llvm.org/llvm-snapshot.gpg.key | apt-key add -"
LlvmRepoCmd(llvm_dev_ver) ==
    "apt-add-repository -y -n \"deb http://apt.llvm.org/$(lsb_release -cs)/ llvm-toolchain-$(lsb_release -cs)"
        \o llvm_dev_ver \o " main\""

\* A mutant of UsesLlvmRepo: the threshold version itself is left out.
UsesLlvmRepoAbove(v) == v = Dev \/ v > LlvmRepoThreshold

\* v == "dev" or v >= 13
UsesLlvmRepo(v) == v = Dev \/ v >= LlvmRepoThreshold

llvm_apt_ver(v) == IF UsesLlvmRepo(v) THEN LlvmLookup ELSE Str(v)

llvm_apt_repos(v) ==
    IF UsesLlvmRepo(v)
    THEN <<LlvmKeyCmd, LlvmRepoCmd(IF v = Dev THEN "" ELSE "-" \o Str(v))>>
    ELSE <<>>

\* The shell line that binds $v, the version token of every clang package name.
BindV(ver) == "v=\"" \o ver \o "\""

PreInstall(compilers) ==
    IF "clang" \in DOMAIN compilers
    THEN llvm_apt_repos(compilers["clang"])
         \o << "apt update",
               BindV(llvm_apt_ver(compilers["clang"])),
               "apt policy llvm-$v",
               "apt policy clang-$v",
               "apt policy clang-tidy-$v",
               "apt policy clang-format-$v",
               "apt policy libc++-$v-dev",
               "apt policy libc++abi-$v-dev" >>
    ELSE <<"apt -y update">>

Packages(compilers, extra_packages) ==
    (IF "clang" \in DOMAIN compilers
     THEN <<"llvm-$v", "clang-$v", "clang-tidy-$v", "clang-format-$v",
            "libc++-$v-dev", "libc++abi-$v-dev">>
     ELSE <<>>)
    \o (IF "gcc" \in DOMAIN compilers THEN <<"g++-" \o Str(compilers["gcc"])>> ELSE <<>>)
    \o (IF extra_packages # "" THEN <<extra_packages>> ELSE <<>>)

ClangTools ==
    << <<"clang", "/usr/bin/clang-$v">>,
       <<"clang++", "/usr/bin/clang++-$v">>,
       <<"clang-tidy", "/usr/bin/clang-tidy-$v">>,
       <<"clang-format", "/usr/bin/clang-format-$v">>,
       <<"llvm-cov", "/usr/lib/llvm-$v/bin/llvm-cov">>,
       <<"run-clang-tidy", "/usr/lib/llvm-$v/bin/run-clang-tidy">> >>

GenericOnClang ==
    << <<"gcc", "/usr/bin/clang-$v">>,
       <<"g++", "/usr/bin/clang++-$v">>,
       <<"gcov", "/usr/lib/llvm-$v/bin/llvm-cov">> >>

\* A mutant of ClangAlts: the generic names are aliased to clang even when
\* gcc is requested too.
ClangAltsAlwaysGeneric(compilers) ==
    IF "clang" \in DOMAIN compilers THEN ClangTools \o GenericOnClang ELSE <<>>

\* alts after the `if "clang" in compilers:` block
ClangAlts(compilers) ==
    IF "clang" \in DOMAIN compilers
    THEN ClangTools \o (IF "gcc" \notin DOMAIN compilers THEN GenericOnClang ELSE <<>>)
    ELSE <<>>

\* what the `if "gcc" in compilers:` block extends alts with
GccAlts(compilers) ==
    IF "gcc" \in DOMAIN compilers
    THEN LET v == Str(compilers["gcc"])
         IN  << <<"gcc", "/usr/bin/gcc-" \o v>>,
                <<"g++", "/usr/bin/g++-" \o v>>,
                <<"gcov", "/usr/bin/gcov-" \o v>> >>
    ELSE <<>>

\* A mutant of Alts: the gcc block runs before the clang block.
AltsGccFirst(compilers) == GccAlts(compilers) \o ClangAlts(compilers)

Alts(compilers) == ClangAlts(compilers) \o GccAlts(compilers)

\* assert "clang" in compilers or "gcc" in compilers
HasCompiler(compilers) == "clang" \in DOMAIN compilers \/ "gcc" \in DOMAIN compilers

\* The outcome of a call that the assert stops.
AssertionError == [raises |-> "AssertionError"]

\* The "# Clang and tools" RUN block; AssertionError when compilers names
\* neither family.
_get_compiler_text(compilers, extra_packages) ==
    IF ~HasCompiler(compilers)
    THEN AssertionError
    ELSE [ pre_install  |-> PreInstall(compilers),
           packages     |-> Packages(compilers, extra_packages),
           alternatives |-> _gen_alternatives(Alts(compilers)) ]

----------------------------------------------------------------------------
(* generate_docker and the generation loop of main()                       *)

None == ""

\* The loop variables that identify one build target.
Target(kind, os, compilers, cuda_ver, hpc_ver) ==
    [kind |-> kind, os |-> os, compilers |-> compilers, cuda_ver |-> cuda_ver, hpc_ver |-> hpc_ver]

Call(target, filename, base_image, compilers, extra_packages) ==
    [target |-> target, filename |-> filename, base_image |-> base_image,
     compilers |-> compilers, extra_packages |-> extra_packages]

MainDockerfile(os) == "Dockerfile.main-ubuntu" \o os
ClangDockerfile(v, os) == "Dockerfile.clang" \o Str(v) \o "-ubuntu" \o os
GccDockerfile(v, os) == "Dockerfile.gcc" \o Str(v) \o "-ubuntu" \o os
CudaDockerfile(v, cuda_ver, os) ==
    "Dockerfile.gcc" \o Str(v) \o "-cuda" \o cuda_ver \o "-ubuntu" \o os

\* A mutant of NvhpcDockerfile: the CUDA version is left out of the name.
NvhpcDockerfileNoCuda(v, cuda_ver, hpc_ver, os) ==
    "Dockerfile.gcc" \o Str(v) \o "-nvhpc" \o hpc_ver \o "-ubuntu" \o os

NvhpcDockerfile(v, cuda_ver, hpc_ver, os) ==
    "Dockerfile.gcc" \o Str(v) \o "-cuda" \o cuda_ver \o "-nvhpc" \o hpc_ver \o "-ubuntu" \o os

\* Whether building the main image's compilers dictionary raises IndexError:
\* clang_versions[-1] or gcc_versions[-1] of an empty list.
MainRaises(e) == e.clang_versions = <<>> \/ e.gcc_versions = <<>>

MainCall(e) ==
    LET compilers == ("clang" :> Last(e.clang_versions)) @@ ("gcc" :> Last(e.gcc_versions))
    IN  Call(Target("main", e.os, compilers, None, None),
             MainDockerfile(e.os), "ubuntu:" \o e.os, compilers, "curl git cppcheck iwyu lcov")

ClangCalls(e) ==
    [ i \in 1..Len(e.clang_versions) |->
        LET v == e.clang_versions[i]
        IN  Call(Target("clang", e.os, "clang" :> v, None, None),
                 ClangDockerfile(v, e.os), "ubuntu:" \o e.os, "clang" :> v, "") ]

GccCall(e, v) ==
    Call(Target("gcc", e.os, "gcc" :> v, None, None),
         GccDockerfile(v, e.os), "ubuntu:" \o e.os, "gcc" :> v, "")

CudaCalls(e, v) ==
    [ k \in 1..Len(e.nvcc_versions) |->
        LET cuda_ver == e.nvcc_versions[k]
        IN  Call(Target("cuda", e.os, "gcc" :> v, cuda_ver, None),
                 CudaDockerfile(v, cuda_ver, e.os),
                 "nvidia/cuda:" \o cuda_ver \o "-devel-ubuntu" \o e.os,
                 "gcc" :> v, "") ]

NvhpcCalls(e, v) ==
    [ k \in 1..Len(e.nvhpc_versions) |->
        LET hpc_ver == e.nvhpc_versions[k].hpc_ver
            cuda_ver == e.nvhpc_versions[k].cuda_ver
        IN  Call(Target("nvhpc", e.os, "gcc" :> v, cuda_ver, hpc_ver),
                 NvhpcDockerfile(v, cuda_ver, hpc_ver, e.os),
                 "nvcr.io/nvidia/nvhpc:" \o hpc_ver \o "-devel-cuda" \o cuda_ver \o "-ubuntu" \o e.os,
                 "gcc" :> v, "") ]

\* The generate_docker calls of one iteration of the generation loop, in order.
DockerCalls(e) ==
    <<MainCall(e)>>
    \o ClangCalls(e)
    \o Flatten([ j \in 1..Len(e.gcc_versions) |->
                    <<GccCall(e, e.gcc_versions[j])>>
                    \o CudaCalls(e, e.gcc_versions[j])
                    \o NvhpcCalls(e, e.gcc_versions[j]) ])

\* What generate_docker writes to the file it opens: the five blocks, in
\* order; prologue, install_base and epilogue are fixed texts.  The compiler
\* block is rendered after the first three writes, so an AssertionError
\* of _get_compiler_text leaves the file with those three blocks.
generate_docker(call) ==
    LET text == _get_compiler_text(call.compilers, call.extra_packages)
    IN  IF text = AssertionError
        THEN [ blocks |-> <<"FROM", "prologue", "install_base">>,
               from   |-> "FROM " \o call.base_image,
               raises |-> "AssertionError" ]
        ELSE [ blocks        |-> <<"FROM", "prologue", "install_base", "compiler_text", "epilogue">>,
               from          |-> "FROM " \o call.base_image,
               compiler_text |-> text,
               raises        |-> "" ]

----------------------------------------------------------------------------
(* The service stanzas of docker-compose.yml                               *)

Stanza(target, service, image, dockerfile) ==
    [target |-> target, service |-> service, image |-> image,
     context |-> ".", dockerfile |-> dockerfile]

MainStanza(e, r) ==
    Stanza(Target("main", e.os, ("clang" :> Last(e.clang_versions)) @@ ("gcc" :> Last(e.gcc_versions)),
                  None, None),
           "main-ubuntu" \o e.os,
           r \o ":main-ubuntu" \o e.os,
           "Dockerfile.main-ubuntu" \o e.os)

ClangStanzas(e, r) ==
    [ i \in 1..Len(e.clang_versions) |->
        LET v == Str(e.clang_versions[i])
        IN  Stanza(Target("clang", e.os, "clang" :> e.clang_versions[i], None, None),
                   "clang" \o v \o "-ubuntu" \o e.os,
                   r \o ":clang" \o v \o "-ubuntu" \o e.os,
                   "Dockerfile.clang" \o v \o "-ubuntu" \o e.os) ]

GccStanza(e, r, gv) ==
    LET v == Str(gv)
    IN  Stanza(Target("gcc", e.os, "gcc" :> gv, None, None),
               "gcc" \o v \o "-ubuntu" \o e.os,
               r \o ":gcc" \o v \o "-ubuntu" \o e.os,
               "Dockerfile.gcc" \o v \o "-ubuntu" \o e.os)

CudaStanzas(e, r, gv) ==
    [ k \in 1..Len(e.nvcc_versions) |->
        LET v == Str(gv)
            cuda_ver == e.nvcc_versions[k]
        IN  Stanza(Target("cuda", e.os, "gcc" :> gv, cuda_ver, None),
                   "gcc" \o v \o "-cuda" \o cuda_ver \o "-ubuntu" \o e.os,
                   r \o ":gcc" \o v \o "-cuda" \o cuda_ver \o "-ubuntu" \o e.os,
                   "Dockerfile.gcc" \o v \o "-cuda" \o cuda_ver \o "-ubuntu" \o e.os) ]

\* A mutant of NvhpcStanzas: the stanzas of the NVHPC images are not written.
NvhpcStanzasMissing(e, r, gv) == <<>>

\* A mutant of NvhpcStanzas: the dockerfile field is the one of the CUDA stanza.
NvhpcStanzasCudaFile(e, r, gv) ==
    [ k \in 1..Len(e.nvhpc_versions) |->
        LET v == Str(gv)
            hpc_ver == e.nvhpc_versions[k].hpc_ver
            cuda_ver == e.nvhpc_versions[k].cuda_ver
        IN  Stanza(Target("nvhpc", e.os, "gcc" :> gv, cuda_ver, hpc_ver),
                   "gcc" \o v \o "-cuda" \o cuda_ver \o "-nvhpc" \o hpc_ver \o "-ubuntu" \o e.os,
                   r \o ":gcc" \o v \o "-cuda" \o cuda_ver \o "-nvhpc" \o hpc_ver \o "-ubuntu" \o e.os,
                   "Dockerfile.gcc" \o v \o "-cuda" \o cuda_ver \o "-ubuntu" \o e.os) ]

NvhpcStanzas(e, r, gv) ==
    [ k \in 1..Len(e.nvhpc_versions) |->
        LET v == Str(gv)
            hpc_ver == e.nvhpc_versions[k].hpc_ver
            cuda_ver == e.nvhpc_versions[k].cuda_ver
        IN  Stanza(Target("nvhpc", e.os, "gcc" :> gv, cuda_ver, hpc_ver),
                   "gcc" \o v \o "-cuda" \o cuda_ver \o "-nvhpc" \o hpc_ver \o "-ubuntu" \o e.os,
                   r \o ":gcc" \o v \o "-cuda" \o cuda_ver \o "-nvhpc" \o hpc_ver \o "-ubuntu" \o e.os,
                   "Dockerfile.gcc" \o v \o "-cuda" \o cuda_ver \o "-nvhpc" \o hpc_ver \o "-ubuntu" \o e.os) ]

\* The stanzas one iteration of the generation loop writes, in order.
Stanzas(e, r) ==
    <<MainStanza(e, r)>>
    \o ClangStanzas(e, r)
    \o Flatten([ j \in 1..Len(e.gcc_versions) |->
                    <<GccStanza(e, r, e.gcc_versions[j])>>
                    \o CudaStanzas(e, r, e.gcc_versions[j])
                    \o NvhpcStanzas(e, r, e.gcc_versions[j]) ])

----------------------------------------------------------------------------
(* The build driver: the five docker-compose invocations per OS version    *)

\* A mutant of BatchOrder: the compiler images are built before the main image.
BatchOrderMainLast == <<"clang", "gcc", "cuda", "nvhpc", "main">>

\* The call sites of one iteration of the build loop, in source order.
BatchOrder == <<"main", "clang", "gcc", "cuda", "nvhpc">>

BuildPrefix == "DOCKER_BUILDKIT=1 docker-compose build --force-rm --parallel"

MainServices(e) == <<"main-ubuntu" \o e.os>>

ClangServices(e) ==
    [ i \in 1..Len(e.clang_versions) |-> "clang" \o Str(e.clang_versions[i]) \o "-ubuntu" \o e.os ]

GccServices(e) ==
    [ i \in 1..Len(e.gcc_versions) |-> "gcc" \o Str(e.gcc_versions[i]) \o "-ubuntu" \o e.os ]

CudaServices(e) ==
    Flatten([ i \in 1..Len(e.gcc_versions) |->
                [ k \in 1..Len(e.nvcc_versions) |->
                    "gcc" \o Str(e.gcc_versions[i]) \o "-cuda" \o e.nvcc_versions[k]
                        \o "-ubuntu" \o e.os ] ])

NvhpcServices(e) ==
    Flatten([ i \in 1..Len(e.gcc_versions) |->
                [ k \in 1..Len(e.nvhpc_versions) |->
                    "gcc" \o Str(e.gcc_versions[i]) \o "-cuda" \o e.nvhpc_versions[k].cuda_ver
                        \o "-nvhpc" \o e.nvhpc_versions[k].hpc_ver \o "-ubuntu" \o e.os ] ])

\* A mutant of CheckCall: the exit status is ignored (subprocess.call).
CheckCallIgnoringStatus(returncode) == TRUE

\* subprocess.check_call returns when the exit status is 0 and raises
\* CalledProcessError otherwise.
CheckCall(returncode) == returncode = 0

ExitStatuses == {0, 1}

----------------------------------------------------------------------------
(* main()                                                                  *)

Init ==
    /\ ubuntu_versions \in Catalogs
    /\ repo \in Repos
    /\ pc = "start"
    /\ error = ""
    /\ osIdx = 1
    /\ composeOpen = FALSE
    /\ composeHeader = <<>>
    /\ dockerfiles = <<>>
    /\ compose = <<>>
    /\ bOs = 1
    /\ bCat = 1
    /\ invocations = <<>>

\* with open("docker-compose.yml", "w") as f: f.write("services:\n")
OpenCompose ==
    /\ pc = "start"
    /\ composeOpen' = TRUE
    /\ composeHeader' = <<"services:">>
    /\ pc' = "generate"
    /\ UNCHANGED <<ubuntu_versions, repo, error, osIdx, dockerfiles, compose, bOs, bCat,
                   invocations>>

\* One iteration of the generation loop: every Dockerfile of the OS version
\* (each call d is logged; the text it writes is generate_docker(d)), then
\* every stanza of it.  The main image's compilers dictionary is built
\* before anything is opened, so an IndexError leaves the iteration without
\* effect; the exception leaves the with block, which closes the manifest.
\* Every call of DockerCalls names a compiler family, so the assert of
\* _get_compiler_text does not stop any of them.
GenerateOS ==
    /\ pc = "generate"
    /\ osIdx <= Len(ubuntu_versions)
    /\ LET e == ubuntu_versions[osIdx]
           calls == DockerCalls(e)
       IN  IF MainRaises(e)
           THEN /\ pc' = "error"
                /\ error' = "IndexError"
                /\ composeOpen' = FALSE
                /\ UNCHANGED <<osIdx, dockerfiles, compose>>
           ELSE /\ dockerfiles' = dockerfiles \o calls
                /\ compose' = compose \o Stanzas(e, repo)
                /\ osIdx' = osIdx + 1
                /\ UNCHANGED <<pc, error, composeOpen>>
    /\ UNCHANGED <<ubuntu_versions, repo, composeHeader, bOs, bCat, invocations>>

\* The end of the with block after the last OS version.
CloseCompose ==
    /\ pc = "generate"
    /\ osIdx > Len(ubuntu_versions)
    /\ composeOpen' = FALSE
    /\ pc' = "build"
    /\ UNCHANGED <<ubuntu_versions, repo, error, osIdx, composeHeader, dockerfiles, compose,
                   bOs, bCat, invocations>>

\* print(cmd); subprocess.check_call(cmd, shell=True) at one call site.
Invoke(site, services) ==
    /\ pc = "build"
    /\ bOs <= Len(ubuntu_versions)
    /\ BatchOrder[bCat] = site
    /\ \E returncode \in ExitStatuses :
          /\ invocations' = Append(invocations,
                 [os |-> ubuntu_versions[bOs].os, site |-> site, prefix |-> BuildPrefix,
                  services |-> services, returncode |-> returncode])
          /\ IF CheckCall(returncode)
             THEN /\ bCat' = IF bCat = Len(BatchOrder) THEN 1 ELSE bCat + 1
                  /\ bOs' = IF bCat = Len(BatchOrder) THEN bOs + 1 ELSE bOs
                  /\ UNCHANGED <<pc, error>>
             ELSE /\ pc' = "error"
                  /\ error' = "CalledProcessError"
                  /\ UNCHANGED <<bOs, bCat>>
    /\ UNCHANGED <<ubuntu_versions, repo, osIdx, composeOpen, composeHeader, dockerfiles, compose>>

BuildMain == pc = "build" /\ bOs <= Len(ubuntu_versions) /\ Invoke("main", MainServices(ubuntu_versions[bOs]))

BuildClang == pc = "build" /\ bOs <= Len(ubuntu_versions) /\ Invoke("clang", ClangServices(ubuntu_versions[bOs]))

BuildGcc == pc = "build" /\ bOs <= Len(ubuntu_versions) /\ Invoke("gcc", GccServices(ubuntu_versions[bOs]))

BuildCuda == pc = "build" /\ bOs <= Len(ubuntu_versions) /\ Invoke("cuda", CudaServices(ubuntu_versions[bOs]))

BuildNvhpc == pc = "build" /\ bOs <= Len(ubuntu_versions) /\ Invoke("nvhpc", NvhpcServices(ubuntu_versions[bOs]))

\* main() returns after the last iteration of the build loop.
Return ==
    /\ pc = "build"
    /\ bOs > Len(ubuntu_versions)
    /\ pc' = "done"
    /\ UNCHANGED <<ubuntu_versions, repo, error, osIdx, composeOpen, composeHeader, dockerfiles,
                   compose, bOs, bCat, invocations>>

Next ==
    \/ OpenCompose
    \/ GenerateOS
    \/ CloseCompose
    \/ BuildMain
    \/ BuildClang
    \/ BuildGcc
    \/ BuildCuda
    \/ BuildNvhpc
    \/ Return

Spec == Init /\ [][Next]_vars

----------------------------------------------------------------------------
(* Properties                                                              *)

Idx(s) == 1..Len(s)

\* The generation loop is over, normally or by an exception.
GenerationEnded == pc \notin {"start", "generate"}

\* The generation loop ran to its end and the manifest was closed.
GenerationCompleted == pc \in {"build", "done"} \/ error = "CalledProcessError"

\* The number of generate_docker calls of one kind made for one OS version.
Generated(os, kind) ==
    Cardinality({ i \in Idx(dockerfiles) :
                    dockerfiles[i].target.os = os /\ dockerfiles[i].target.kind = kind })

\* C1 (as claimed): for every catalog, a list of which may be empty, the
\* generation run completes and generates, per OS version, one primary
\* target, one target per clang and per gcc version, one per (gcc, nvcc)
\* pair and one per (gcc, nvhpc) pair, and nothing else.
C1_CountsForEveryCatalog ==
    GenerationEnded =>
        /\ error # "IndexError"
        /\ \A i \in Idx(ubuntu_versions) :
              LET e == ubuntu_versions[i]
              IN  /\ Generated(e.os, "main") = 1
                  /\ Generated(e.os, "clang") + Generated(e.os, "gcc")
                        = Len(e.clang_versions) + Len(e.gcc_versions)
                  /\ Generated(e.os, "cuda") = Len(e.gcc_versions) * Len(e.nvcc_versions)
                  /\ Generated(e.os, "nvhpc") = Len(e.gcc_versions) * Len(e.nvhpc_versions)
        /\ \A k \in Idx(dockerfiles) :
              \E i \in Idx(ubuntu_versions) : dockerfiles[k].target.os = ubuntu_versions[i].os

\* C2: no two generate_docker calls of a run open the same file name, and
\* no two stanzas carry the same service name: distinct targets get
\* distinct Dockerfile names and distinct service names.
C2_NamesInjective ==
    /\ \A i, j \in Idx(dockerfiles) :
          i # j => /\ dockerfiles[i].target # dockerfiles[j].target
                   /\ dockerfiles[i].filename # dockerfiles[j].filename
    /\ \A i, j \in Idx(compose) :
          i # j => /\ compose[i].target # compose[j].target
                   /\ compose[i].service # compose[j].service

\* Two NVHPC targets that differ only in the CUDA version, one of them the
\* "_multi" wildcard, were generated, for two OS versions.
C2_Witness ==
    /\ \E i, j \in Idx(dockerfiles) :
          /\ dockerfiles[i].target.kind = "nvhpc" /\ dockerfiles[j].target.kind = "nvhpc"
          /\ dockerfiles[i].target.os = dockerfiles[j].target.os
          /\ dockerfiles[i].target.compilers = dockerfiles[j].target.compilers
          /\ dockerfiles[i].target.hpc_ver = dockerfiles[j].target.hpc_ver
          /\ dockerfiles[i].target.cuda_ver = "_multi"
          /\ dockerfiles[j].target.cuda_ver # "_multi"
    /\ \E i, j \in Idx(compose) : compose[i].target.os # compose[j].target.os

\* The position of a category in the order the claim names.
Rank(site) ==
    CASE site = "main" -> 1 [] site = "clang" -> 2 [] site = "gcc" -> 3
      [] site = "cuda" -> 4 [] site = "nvhpc" -> 5

OsPos(os) == CHOOSE i \in Idx(ubuntu_versions) : ubuntu_versions[i].os = os

\* C3 (as claimed): over the whole run, once an invocation of a later
\* category has been issued, none of an earlier category follows.
C3_CategoryOrderWholeRun ==
    \A i, j \in Idx(invocations) :
        i < j => Rank(invocations[i].site) <= Rank(invocations[j].site)

\* C3 (amended): the OS versions are built one after the other in catalog
\* order, and within one OS version the invocations are issued in the
\* order primary, clang, gcc, gcc+GPU-toolkit, gcc+GPU-toolkit+runtime.
C3_CategoryOrderPerOS ==
    \A i, j \in Idx(invocations) :
        i < j =>
            \/ OsPos(invocations[i].os) < OsPos(invocations[j].os)
            \/ /\ invocations[i].os = invocations[j].os
               /\ Rank(invocations[i].site) < Rank(invocations[j].site)

\* All five batches of two OS versions were issued.
C3_Witness ==
    /\ Len(invocations) = 10
    /\ invocations[1].os # invocations[10].os

\* The service names of the stanzas of one category of one OS version.
BatchOf(os, site) ==
    { compose[k].service : k \in { n \in Idx(compose) :
                                     compose[n].target.os = os /\ compose[n].target.kind = site } }

\* C4 (as claimed): in a run whose invocations all succeed, each batch
\* issues one invocation, whose service list is never empty and is exactly
\* the services of the batch, and every target's service is named in
\* exactly one invocation.
C4_OneInvocationPerBatch ==
    pc = "done" =>
        /\ \A i \in Idx(ubuntu_versions), site \in Range(BatchOrder) :
              Cardinality({ n \in Idx(invocations) :
                              /\ invocations[n].os = ubuntu_versions[i].os
                              /\ invocations[n].site = site }) = 1
        /\ \A n \in Idx(invocations) :
              /\ invocations[n].services # <<>>
              /\ Range(invocations[n].services) = BatchOf(invocations[n].os, invocations[n].site)
        /\ \A k \in Idx(compose) :
              Cardinality({ n \in Idx(invocations) :
                              \E m \in Idx(invocations[n].services) :
                                  invocations[n].services[m] = compose[k].service }) = 1

\* C5: when an invocation has been issued, the manifest is written and
\* closed, every service the invocation names has its stanza, and the
\* Dockerfile the stanza references has been written; and after the first
\* invocation no artifact is written.
C5_BuildAfterGeneration ==
    /\ [](\A n \in Idx(invocations) :
            /\ ~composeOpen
            /\ composeHeader = <<"services:">>
            /\ \A m \in Idx(invocations[n].services) :
                  \E k \in Idx(compose) :
                      /\ compose[k].service = invocations[n].services[m]
                      /\ \E d \in Idx(dockerfiles) :
                            dockerfiles[d].filename = compose[k].dockerfile)
    /\ [][invocations # <<>> => UNCHANGED <<dockerfiles, compose, composeHeader, composeOpen>>]_vars

\* The NVHPC batch of the second OS version was issued, with services.
C5_Witness ==
    \E n \in Idx(invocations) :
        /\ n > 5
        /\ invocations[n].site = "nvhpc"
        /\ Len(invocations[n].services) >= 2

\* C6: after a completed generation the manifest holds one stanza per
\* target generated and no other; the stanza's service name and image tag
\* come from the tuple the Dockerfile name comes from, and its dockerfile
\* field is the file generate_docker opened for that target.
C6_ManifestMatchesDockerfiles ==
    GenerationCompleted =>
        /\ composeHeader = <<"services:">>
        /\ Len(compose) = Len(dockerfiles)
        /\ \A d \in Idx(dockerfiles) :
              /\ Cardinality({ k \in Idx(compose) : compose[k].target = dockerfiles[d].target }) = 1
              /\ \A k \in Idx(compose) :
                    compose[k].target = dockerfiles[d].target =>
                        /\ compose[k].dockerfile = dockerfiles[d].filename
                        /\ "Dockerfile." \o compose[k].service = dockerfiles[d].filename
                        /\ compose[k].image = repo \o ":" \o compose[k].service
                        /\ compose[k].context = "."
        /\ \A k \in Idx(compose) :
              \E d \in Idx(dockerfiles) : dockerfiles[d].target = compose[k].target
        /\ \A i \in Idx(ubuntu_versions) :
              \E k \in Idx(compose) :
                  compose[k].target.os = ubuntu_versions[i].os /\ compose[k].target.kind = "main"

\* Generation completed for two OS versions, with stanzas of every kind.
C6_Witness ==
    /\ GenerationCompleted
    /\ Len(ubuntu_versions) = 2
    /\ \A kind \in Range(BatchOrder) : \E k \in Idx(compose) : compose[k].target.kind = kind

ClangAliases == <<"clang", "clang++", "clang-tidy", "clang-format", "llvm-cov", "run-clang-tidy">>
GenericAliases == <<"gcc", "g++", "gcov">>

\* The registrations of the alternatives block written by call d.
Alternatives(d) == generate_docker(d).compiler_text.alternatives

\* C7: when a Dockerfile is generated for both families, its alternatives
\* block registers the six clang aliases, then the three gcc aliases; the
\* first registration (clang) is the --install one, every later one a
\* --slave, in list order.
C7_ClangBeforeGcc ==
    \A d \in Idx(dockerfiles) :
        DOMAIN dockerfiles[d].compilers = {"clang", "gcc"} =>
            LET alt == Alternatives(dockerfiles[d])
            IN  /\ [ p \in Idx(alt) |-> alt[p].rule.alias ] = ClangAliases \o GenericAliases
                /\ \A p, q \in Idx(alt) :
                      (alt[p].rule.alias \in Range(ClangAliases)
                         /\ alt[q].rule.alias \in Range(GenericAliases)) => p < q
                /\ alt[1].flag = "--install" /\ alt[1].rule.alias = "clang"
                /\ \A p \in Idx(alt) : p > 1 => alt[p].flag = "--slave"

\* A main Dockerfile, which requests both families, was generated.
C7_Witness ==
    \E d \in Idx(dockerfiles) :
        /\ DOMAIN dockerfiles[d].compilers = {"clang", "gcc"}
        /\ Len(Alternatives(dockerfiles[d])) = 9

\* Every repository command _get_compiler_text can render.
RepoCmds == {LlvmKeyCmd, LlvmRepoCmd("")} \cup { LlvmRepoCmd("-" \o Str(v)) : v \in Range(ClangPool) }

\* C8: for clang "dev" or a version >= 13 the block adds the LLVM
\* repository before it binds the version token, and binds it to the
\* shell lookup, not to the number; for a version below 13 it adds no
\* repository and binds the token to the number.  The package names use
\* the token.
C8_DeferredVersion ==
    \A d \in Idx(dockerfiles) :
        "clang" \in DOMAIN dockerfiles[d].compilers =>
            LET v == dockerfiles[d].compilers["clang"]
                text == generate_docker(dockerfiles[d]).compiler_text
                pre == text.pre_install
            IN  /\ IF v = Dev \/ v >= 13
                   THEN /\ \E i, j \in Idx(pre) :
                              /\ i < j
                              /\ pre[i] = LlvmRepoCmd(IF v = Dev THEN "" ELSE "-" \o Str(v))
                              /\ pre[j] = BindV(LlvmLookup)
                        /\ \A j \in Idx(pre) : pre[j] # BindV(Str(v))
                   ELSE /\ \A i \in Idx(pre) : pre[i] \notin RepoCmds
                        /\ \E j \in Idx(pre) : pre[j] = BindV(Str(v))
                        /\ \A j \in Idx(pre) : pre[j] # BindV(LlvmLookup)
                /\ {"llvm-$v", "clang-$v", "clang-tidy-$v", "clang-format-$v"}
                      \subseteq Range(text.packages)

\* Dockerfiles were generated for clang 12, below the threshold, for clang
\* 13, the threshold, and for clang dev.
C8_Witness ==
    \A v \in {12, 13, Dev} :
        \E d \in Idx(dockerfiles) :
            /\ "clang" \in DOMAIN dockerfiles[d].compilers
            /\ dockerfiles[d].compilers["clang"] = v

\* C9: the alternatives block of every Dockerfile registers each alias
\* once; gcc, g++ and gcov are bound to the clang binaries exactly when
\* clang is requested without gcc, and to the versioned gcc binaries
\* exactly when gcc is requested.
C9_AliasesRegisteredOnce ==
    \A d \in Idx(dockerfiles) :
        LET c == dockerfiles[d].compilers
            alt == Alternatives(dockerfiles[d])
            Bound(alias, actual) ==
                \E p \in Idx(alt) : alt[p].rule.alias = alias /\ alt[p].rule.actual = actual
        IN  /\ \A p, q \in Idx(alt) : p # q => alt[p].rule.alias # alt[q].rule.alias
            /\ (Bound("gcc", "/usr/bin/clang-$v") /\ Bound("g++", "/usr/bin/clang++-$v")
                   /\ Bound("gcov", "/usr/lib/llvm-$v/bin/llvm-cov"))
                  <=> ("clang" \in DOMAIN c /\ "gcc" \notin DOMAIN c)
            /\ (Bound("gcc", "/usr/bin/clang-$v") \/ Bound("g++", "/usr/bin/clang++-$v")
                   \/ Bound("gcov", "/usr/lib/llvm-$v/bin/llvm-cov"))
                  => ("clang" \in DOMAIN c /\ "gcc" \notin DOMAIN c)
            /\ "gcc" \in DOMAIN c =>
                  /\ Bound("gcc", "/usr/bin/gcc-" \o Str(c["gcc"]))
                  /\ Bound("g++", "/usr/bin/g++-" \o Str(c["gcc"]))
                  /\ Bound("gcov", "/usr/bin/gcov-" \o Str(c["gcc"]))
            /\ "gcc" \notin DOMAIN c =>
                  \A p \in Idx(alt), g \in Range(GccPool) :
                      alt[p].rule.actual \notin
                          {"/usr/bin/gcc-" \o Str(g), "/usr/bin/g++-" \o Str(g), "/usr/bin/gcov-" \o Str(g)}

\* Dockerfiles were generated for clang alone, for gcc alone and for both.
C9_Witness ==
    \A dom \in {{"clang"}, {"gcc"}, {"clang", "gcc"}} :
        \E d \in Idx(dockerfiles) : DOMAIN dockerfiles[d].compilers = dom

\* C10: an invocation that fails is the last one of the run, which ends
\* with CalledProcessError; the failing step, like every step after the
\* first invocation, leaves the artifacts written before it in place.
C10_AbortOnFirstFailure ==
    /\ [](\A n \in Idx(invocations) :
            invocations[n].returncode # 0 =>
                /\ n = Len(invocations)
                /\ pc = "error"
                /\ error = "CalledProcessError")
    /\ [][pc' = "error" /\ error' = "CalledProcessError" =>
            UNCHANGED <<dockerfiles, compose, composeHeader>>]_vars
    /\ [][pc = "error" => UNCHANGED <<invocations, dockerfiles, compose, composeHeader>>]_vars

\* A batch of the second OS version failed after the batches before it succeeded.
C10_Witness ==
    /\ pc = "error"
    /\ Len(invocations) > 5
    /\ invocations[Len(invocations)].returncode # 0
    /\ invocations[1].returncode = 0

====
